---------------------------- MODULE Spec2Model ----------------------------
(***************************************************************************)
(* Model of scripts/update_pricing.py: the App Store Connect in-app        *)
(* purchase pricing updater.  One batch run (main) walks the rule list;    *)
(* every rule is processed by process_rule, which reads the source item's  *)
(* price schedule over HTTP, discounts every territory's price, matches    *)
(* the nearest price point of the target item and posts one replacement    *)
(* schedule.  Every HTTP request is one step of the model; the remote      *)
(* system answers each request with a status of its own choosing.          *)
(*                                                                         *)
(* Prices are whole hundredths (customerPrice "7.99" is 799).              *)
(***************************************************************************)
EXTENDS Integers, Sequences, FiniteSets, TLC

(***************************************************************************)
(* Bounds of the model.                                                    *)
(***************************************************************************)
\* longest rule list drawn from the rules file
MaxRules == 2
\* items the remote system puts on one page of a collection
PageLimit == 1
\* longest ladder and highest price handed to the tier matcher
MaxLadder == 3
MaxPrice == 4
\* most price resources in one layer handed to the overlay
MaxEntries == 2
\* most pages of a collection handed to the fetcher, and most items on a page
MaxPages == 3
MaxPageItems == 2
MaxSourcePrice == 20

None == "None"
\* next_url is None: no page is left to fetch
NoUrl == 0

Items == {"A", "B"}
Territories == {"USA", "GBR"}
Discounts == {0, 20, 100}
Statuses == {200, 404, 500}

\* a rule of the rules file (update_pricing.py:307-309)
Rules == [sourceIapId : Items, targetIapId : Items, discountPercent : Discounts]

RuleLists == UNION {[1..n -> Rules] : n \in 0..MaxRules}

(***************************************************************************)
(* Python dict, insertion ordered: a sequence of <<key, value>> entries    *)
(* with pairwise distinct keys.                                            *)
(***************************************************************************)
dict_keys(d) == {d[i][1] : i \in DOMAIN d}

dict_get(d, k) == LET i == CHOOSE j \in DOMAIN d : d[j][1] = k IN d[i][2]

\* d[k] = v: an existing key keeps its position, a new key goes last
dict_set(d, k, v) ==
    IF k \in dict_keys(d)
    THEN [i \in DOMAIN d |-> IF d[i][1] = k THEN <<k, v>> ELSE d[i]]
    ELSE Append(d, <<k, v>>)

RECURSIVE dict_update(_, _)
\* d.update(e)
dict_update(d, e) ==
    IF e = <<>> THEN d
    ELSE dict_update(dict_set(d, Head(e)[1], Head(e)[2]), Tail(e))

(***************************************************************************)
(* The remote system.  Its catalogue of price points and its automatic     *)
(* prices do not change during a run; manual prices and the base           *)
(* territory of an item are replaced by a schedule-creation request.       *)
(***************************************************************************)
\* the id of the price point of an item in a territory at a price
PricePointId(item, terr, price) == <<item, terr, price>>

\* the price points of item in terr, in the order the remote system lists them
RemotePricePoints(item, terr) ==
    LET prices == CASE item = "A" /\ terr = "USA" -> <<999, 499, 799>>
                    [] item = "A" /\ terr = "GBR" -> <<599, 749, 799>>
                    [] item = "B" /\ terr = "USA" -> <<799, 849, 899>>
                    [] OTHER -> <<>>
    IN [i \in DOMAIN prices |->
           [id |-> PricePointId(item, terr, prices[i]), customerPrice |-> prices[i]]]

\* a price resource: the territory and the price point it relates to
PriceResource(item, terr, price) ==
    [territory |-> terr, inAppPurchasePricePoint |-> PricePointId(item, terr, price)]

RemoteAutomaticPrices(item) ==
    IF item = "A"
    THEN <<PriceResource("A", "USA", 999), PriceResource("A", "GBR", 749)>>
    ELSE <<PriceResource("B", "USA", 899)>>

InitialManualPrices(item) ==
    IF item = "A" THEN <<PriceResource("A", "GBR", 799)>> ELSE <<>>

InitialRemote ==
    [manualPrices |-> [i \in Items |-> InitialManualPrices(i)],
     baseTerritory |-> [i \in Items |-> IF i = "A" THEN "GBR" ELSE "USA"]]

\* the schedule id of an item
ScheduleId(item) == <<"schedule", item>>

\* process_rule has not read a schedule yet
NoSchedule == [id |-> ScheduleId(None), related |-> FALSE]

\* the price point resource side-loaded for a price resource
IncludedFor(res) ==
    [id |-> res.inAppPurchasePricePoint, customerPrice |-> res.inAppPurchasePricePoint[3]]

\* a collection cut into pages of PageLimit items; an empty collection is one empty page
Paginate(s) ==
    LET k == IF Len(s) = 0 THEN 1 ELSE (Len(s) + PageLimit - 1) \div PageLimit
    IN [p \in 1..k |->
           SubSeq(s, (p - 1) * PageLimit + 1,
                  IF p * PageLimit < Len(s) THEN p * PageLimit ELSE Len(s))]

\* one page's response body: body["data"], body["included"], body["links"]["next"]
PageBody(pages, p, withIncludes) ==
    [data |-> pages[p],
     included |-> IF withIncludes
                  THEN [i \in DOMAIN pages[p] |-> IncludedFor(pages[p][i])]
                  ELSE <<>>,
     next |-> IF p < Len(pages) THEN p + 1 ELSE NoUrl]

(***************************************************************************)
(* Pure helpers of the script.                                             *)
(***************************************************************************)
Abs(x) == IF x < 0 THEN 0 - x ELSE x

\* n / d cut off below the nearest integer
RoundDown(n, d) == n \div d

\* round(n / d) to the nearest integer, an exact tie going to the even neighbour
RoundHalfEven(n, d) ==
    LET q == n \div d
        r == n % d
    IN IF 2 * r > d \/ (2 * r = d /\ q % 2 = 1) THEN q + 1 ELSE q

\* a target price that leaves the discount out
target_price_of_undiscounted(src_price, discount) == src_price

\* round(src_price * (1 - discount / 100), 2), in hundredths.  Away from an exact
\* decimal tie the float product rounds to the nearest hundredth; at an exact tie
\* the binary value of the product decides between the two neighbours, and the
\* even one stands for it here.  A discount of 20 on whole hundredths has no tie.
target_price_of(src_price, discount) == RoundHalfEven(src_price * (100 - discount), 100)

\* the values round(src_price * (1 - discount / 100), 2) can take, in hundredths:
\* at an exact decimal tie the float product lies on either side of it, so the
\* result is either neighbour; elsewhere it is the nearest hundredth
float_round_outcomes(src_price, discount) ==
    LET exact == src_price * (100 - discount)
    IN IF exact % 100 = 50
       THEN {exact \div 100, exact \div 100 + 1}
       ELSE {target_price_of(src_price, discount)}

\* a range check that lets the end points through
valid_discount_inclusive(discount) == 0 <= discount /\ discount <= 100

\* 0 < discount < 100
valid_discount(discount) == 0 < discount /\ discount < 100

RECURSIVE include_all(_, _)
\* for item in body["included"]: all_included[item["id"]] = item
include_all(inc, page_included) ==
    IF page_included = <<>> THEN inc
    ELSE include_all(dict_set(inc, Head(page_included).id, Head(page_included)),
                     Tail(page_included))

RECURSIVE prices_from_data(_, _, _)
\* the loop of _prices_from_relationship over the fetched data
prices_from_data(data, included, result) ==
    IF data = <<>> THEN result
    ELSE LET price_resource == Head(data)
             territory_id == price_resource.territory
             pp_id == price_resource.inAppPurchasePricePoint
         IN IF territory_id = None
            THEN prices_from_data(Tail(data), included, result)
            ELSE IF pp_id \notin dict_keys(included)
            THEN prices_from_data(Tail(data), included, result)
            ELSE prices_from_data(Tail(data), included,
                     dict_set(result, territory_id,
                              dict_get(included, pp_id).customerPrice))

\* the position sorted() gives p in the sorted sequence s: after every element
\* whose price is not greater (the sort is stable)
insert_sorted(s, p) ==
    LET n == Cardinality({i \in DOMAIN s : s[i].price <= p.price})
    IN SubSeq(s, 1, n) \o <<p>> \o SubSeq(s, n + 1, Len(s))

RECURSIVE sorted_by_price(_)
\* sorted(points, key=lambda x: x["price"])
sorted_by_price(points) ==
    IF points = <<>> THEN <<>>
    ELSE insert_sorted(sorted_by_price(SubSeq(points, 1, Len(points) - 1)),
                       points[Len(points)])

\* [{"id": p["id"], "price": float(p["attributes"]["customerPrice"])} for p in points]
price_points_of(points) ==
    [i \in DOMAIN points |-> [id |-> points[i].id, price |-> points[i].customerPrice]]

RECURSIVE min_by_distance(_, _, _)
\* min() keeps the first element whose key is the smallest
min_by_distance(points, target, best) ==
    IF points = <<>> THEN best
    ELSE min_by_distance(Tail(points), target,
             IF Abs(Head(points).price - target) < Abs(best.price - target)
             THEN Head(points) ELSE best)

\* min() made to keep the last element whose key is the smallest
best_price_point_last_wins(points, target) ==
    LET d(i) == Abs(points[i].price - target)
        i == CHOOSE k \in DOMAIN points :
                \A j \in DOMAIN points : d(k) < d(j) \/ (d(k) = d(j) /\ j <= k)
    IN points[i]

\* min(points, key=lambda p: abs(p["price"] - target)); points is not empty
best_price_point(points, target) == min_by_distance(Tail(points), target, Head(points))

\* a local reference id that does not depend on the territory
LocalRef_same(territory_id) == <<"price", "territory">>

\* the local reference id of a territory's manual price: f"${{price-{territory_id}}}"
LocalRef(territory_id) == <<"price", territory_id>>

\* the document apply_prices_bulk posts
bulk_body(iap_id, base, pp_map) ==
    [data |-> [inAppPurchase |-> iap_id,
               baseTerritory |-> base,
               manualPrices |-> [i \in DOMAIN pp_map |-> LocalRef(pp_map[i][1])]],
     included |-> [i \in DOMAIN pp_map |->
                      [id |-> LocalRef(pp_map[i][1]),
                       inAppPurchasePricePoint |-> pp_map[i][2]]]]

\* the remote system after it accepted a schedule-creation request: the item's
\* manual prices are replaced by the document's, its base territory by the document's
remote_after_post(rem, body) ==
    [manualPrices |->
        [rem.manualPrices EXCEPT ![body.data.inAppPurchase] =
            [i \in DOMAIN body.included |->
                [territory |-> body.included[i].inAppPurchasePricePoint[2],
                 inAppPurchasePricePoint |-> body.included[i].inAppPurchasePricePoint]]],
     baseTerritory |->
        [rem.baseTerritory EXCEPT ![body.data.inAppPurchase] = body.data.baseTerritory]]

VARIABLES
    rules,            \* main: the rule list loaded from the rules file
    dry_run,          \* main: DRY_RUN
    remote,           \* the remote system's manual prices and base territories
    pc,               \* where the run stands
    idx,              \* main: index of the rule the for loop is at
    errors,           \* main: errors
    exit_status,      \* the process's exit status, -1 while running
    src_schedule,     \* process_rule: src_schedule
    base_territory,   \* process_rule: base_territory
    prices,           \* get_all_prices: prices
    src_prices,       \* process_rule: src_prices
    ti,               \* process_rule: position of the for loop in src_prices
    price_point_map,  \* process_rule: price_point_map
    skipped,          \* process_rule: skipped
    next_url,         \* fetch_all / fetch_all_with_includes: next_url (a page number)
    params,           \* fetch_all / fetch_all_with_includes: params is not None
    items,            \* fetch_all: items / fetch_all_with_includes: all_data
    all_included,     \* fetch_all_with_includes: all_included
    reqs,             \* history: the requests of the rule last started, in order
    writes,           \* history: the schedule-creation requests the remote accepted,
                      \*   each with whether every read of its rule answered 200
    attempted,        \* history: the rules process_rule was called for, in order
    applied,          \* history: the "updated for n territories" reports
    fn                \* the call under study when one function is run by itself

vars == <<rules, dry_run, remote, pc, idx, errors, exit_status, src_schedule,
          base_territory, prices, src_prices, ti, price_point_map, skipped,
          next_url, params, items, all_included, reqs, writes, attempted, applied,
          fn>>

locals == <<src_schedule, base_territory, prices, src_prices, ti,
            price_point_map, skipped>>
fetch_vars == <<next_url, params, items, all_included>>
batch_vars == <<rules, dry_run, fn>>

\* the batch run studies no single call
NoCall == [op |-> "main"]

Init ==
    /\ rules \in RuleLists
    /\ dry_run \in BOOLEAN
    /\ remote = InitialRemote
    /\ pc = "main"
    /\ idx = 1
    /\ errors = <<>>
    /\ exit_status = -1
    /\ src_schedule = NoSchedule
    /\ base_territory = None
    /\ prices = <<>>
    /\ src_prices = <<>>
    /\ ti = 0
    /\ price_point_map = <<>>
    /\ skipped = <<>>
    /\ next_url = NoUrl
    /\ params = FALSE
    /\ items = <<>>
    /\ all_included = <<>>
    /\ reqs = <<>>
    /\ writes = <<>>
    /\ attempted = <<>>
    /\ applied = <<>>
    /\ fn = NoCall


(***************************************************************************)
(* The batch run.                                                          *)
(***************************************************************************)
rule == rules[idx]

\* a GET request carries no document
NoBody == bulk_body(None, None, <<>>)

\* a request as the remote system sees it
Request(method, resource, item, territory, page, with_params, status, body) ==
    [method |-> method, resource |-> resource, item |-> item, territory |-> territory,
     page |-> page, params |-> with_params, status |-> status, body |-> body]

\* an except clause that records the error and leaves the loop
Raise_and_stop(exc) ==
    /\ errors' = Append(errors, [rule |-> idx,
                                 sourceIapId |-> rule.sourceIapId,
                                 targetIapId |-> rule.targetIapId,
                                 exc |-> exc])
    /\ idx' = Len(rules) + 1
    /\ pc' = "main"

\* main's except clause: the error is recorded against the rule and the loop goes on
Raise(exc) ==
    /\ errors' = Append(errors, [rule |-> idx,
                                 sourceIapId |-> rule.sourceIapId,
                                 targetIapId |-> rule.targetIapId,
                                 exc |-> exc])
    /\ idx' = idx + 1
    /\ pc' = "main"

\* process_rule returns: the for loop of main goes on
Return ==
    /\ idx' = idx + 1
    /\ pc' = "main"
    /\ UNCHANGED errors

\* a loop body that takes every page for the last one
fetch_iteration_stops(body) ==
    [items |-> items \o body.data,
     all_included |-> include_all(all_included, body.included),
     next_url |-> NoUrl,
     params |-> FALSE]

\* a loop body that sends the query parameters again with every page
fetch_iteration_keeps_params(body) ==
    [items |-> items \o body.data,
     all_included |-> include_all(all_included, body.included),
     next_url |-> body.next,
     params |-> params]

\* the body of the while loop of fetch_all and of fetch_all_with_includes after a
\* response that raise_for_status let through: the locals at the end of the pass
\* (fetch_all has no included resources: body.included is empty there)
fetch_iteration(body) ==
    [items |-> items \o body.data,
     all_included |-> include_all(all_included, body.included),
     next_url |-> body.next,
     params |-> FALSE]

\* an emptiness check that never finds the map empty
no_prices_never(merged) == FALSE

\* if not prices: the merged map has no entry
no_prices(merged) == merged = <<>>

\* prices.update with the layers the wrong way round
merge_layers_automatic_wins(automatic, manual) == dict_update(manual, automatic)

\* get_all_prices: the automatic layer, then prices.update(the manual layer)
merge_layers(automatic, manual) == dict_update(automatic, manual)

\* a status check that lets the 4xx answers through
raises_on_server_errors(status) == status >= 500

\* resp.raise_for_status() raises: the status is not a success
raise_for_status(status) == status # 200

\* the locals of a fetch before its first request
StartFetchState ==
    /\ next_url = 1
    /\ params = TRUE
    /\ items = <<>>
    /\ all_included = <<>>

\* a fetch starts: items = [], all_included = {}, next_url = url, params as given
StartFetch ==
    /\ next_url' = 1
    /\ params' = TRUE
    /\ items' = <<>>
    /\ all_included' = <<>>

\* main's for loop calls process_rule, which validates the discount first
StartRule ==
    /\ pc = "main"
    /\ idx <= Len(rules)
    /\ attempted' = Append(attempted, idx)
    /\ reqs' = <<>>
    /\ src_schedule' = NoSchedule
    /\ base_territory' = None
    /\ prices' = <<>>
    /\ src_prices' = <<>>
    /\ ti' = 0
    /\ price_point_map' = <<>>
    /\ skipped' = <<>>
    /\ next_url' = NoUrl
    /\ params' = FALSE
    /\ items' = <<>>
    /\ all_included' = <<>>
    /\ IF ~valid_discount(rule.discountPercent)
       THEN Raise("ValueError")
       ELSE pc' = "get_price_schedule" /\ UNCHANGED <<idx, errors>>
    /\ UNCHANGED <<batch_vars, remote, exit_status, writes, applied>>

\* what the remote system may answer to the schedule lookup: no data, or the
\* schedule with or without its baseTerritory link
ScheduleBodies(item) ==
    {[data |-> FALSE, id |-> ScheduleId(item), related |-> FALSE],
     [data |-> TRUE, id |-> ScheduleId(item), related |-> TRUE],
     [data |-> TRUE, id |-> ScheduleId(item), related |-> FALSE]}

get_price_schedule ==
    /\ pc = "get_price_schedule"
    /\ \E status \in Statuses, body \in ScheduleBodies(rule.sourceIapId) :
          /\ reqs' = Append(reqs, Request("GET", "iapPriceSchedule", rule.sourceIapId,
                                          None, 1, FALSE, status, NoBody))
          /\ IF status # 200
             THEN Raise("HTTPError") /\ UNCHANGED src_schedule
             ELSE IF ~body.data
             THEN Raise("LookupError") /\ UNCHANGED src_schedule
             ELSE /\ src_schedule' = [id |-> body.id, related |-> body.related]
                  /\ pc' = "get_base_territory"
                  /\ UNCHANGED <<idx, errors>>
    /\ UNCHANGED <<batch_vars, remote, exit_status, writes, applied, attempted,
                   base_territory, prices, src_prices, ti, price_point_map, skipped,
                   fetch_vars>>

\* get_base_territory, and on its return the first fetch of get_all_prices starts
get_base_territory ==
    /\ pc = "get_base_territory"
    /\ IF ~src_schedule.related
       THEN /\ Raise("LookupError")
            /\ UNCHANGED <<reqs, base_territory, fetch_vars>>
       ELSE \E status \in Statuses, has_id \in BOOLEAN :
              /\ reqs' = Append(reqs, Request("GET", "baseTerritory", rule.sourceIapId,
                                              None, 1, FALSE, status, NoBody))
              /\ IF status # 200
                 THEN Raise("HTTPError") /\ UNCHANGED <<base_territory, fetch_vars>>
                 ELSE IF ~has_id
                 THEN Raise("LookupError") /\ UNCHANGED <<base_territory, fetch_vars>>
                 ELSE /\ base_territory' = remote.baseTerritory[rule.sourceIapId]
                      /\ pc' = "automaticPrices"
                      /\ StartFetch
                      /\ UNCHANGED <<idx, errors>>
    /\ UNCHANGED <<batch_vars, remote, exit_status, writes, applied, attempted,
                   src_schedule, prices, src_prices, ti, price_point_map, skipped>>

\* the collection behind a relationship of the source item's schedule
RemoteCollection(relationship) ==
    IF relationship = "automaticPrices"
    THEN RemoteAutomaticPrices(rule.sourceIapId)
    ELSE remote.manualPrices[rule.sourceIapId]

\* get_all_prices goes on with the layer a call of _prices_from_relationship returned
layer_returned(relationship, result) ==
    IF relationship = "automaticPrices"
    THEN /\ prices' = result
         /\ pc' = "manualPrices"
         /\ StartFetch
         /\ UNCHANGED <<idx, errors, src_prices, ti>>
    ELSE LET merged == merge_layers(prices, result)
         IN /\ prices' = merged
            /\ UNCHANGED all_included
            /\ IF no_prices(merged)
               THEN /\ Raise("LookupError")
                    /\ UNCHANGED <<src_prices, ti, next_url, params, items>>
               ELSE /\ src_prices' = merged
                    /\ ti' = 1
                    /\ pc' = "pricePoints"
                    /\ next_url' = 1
                    /\ params' = TRUE
                    /\ items' = <<>>
                    /\ UNCHANGED <<idx, errors>>

\* one request of fetch_all_with_includes inside _prices_from_relationship
fetch_prices_page(relationship) ==
    /\ pc = relationship
    /\ next_url # NoUrl
    /\ \E status \in Statuses :
          LET pages == Paginate(RemoteCollection(relationship))
              body == PageBody(pages, next_url, TRUE)
              pass == fetch_iteration(body)
              data == pass.items
              included == pass.all_included
          IN /\ reqs' = Append(reqs, Request("GET", relationship, rule.sourceIapId,
                                             None, next_url, params, status, NoBody))
             /\ IF status = 200
                THEN IF pass.next_url # NoUrl
                     THEN /\ items' = data
                          /\ all_included' = included
                          /\ next_url' = pass.next_url
                          /\ params' = pass.params
                          /\ UNCHANGED <<pc, idx, errors, prices, src_prices, ti>>
                     ELSE layer_returned(relationship,
                                         prices_from_data(data, included, <<>>))
                ELSE IF status = 404
                THEN layer_returned(relationship, <<>>)
                ELSE /\ Raise("HTTPError")
                     /\ UNCHANGED <<prices, src_prices, ti, fetch_vars>>
    /\ UNCHANGED <<batch_vars, remote, exit_status, writes, applied, attempted,
                   src_schedule, base_territory, price_point_map, skipped>>

fetch_automatic_prices == fetch_prices_page("automaticPrices")

fetch_manual_prices == fetch_prices_page("manualPrices")

\* a loop over src_prices that stops one territory early
more_territories_but_last == ti + 1 < Len(src_prices)

\* a skip that leaves no trace of the territory
skip_territory_forgets(territory_id) == skipped

\* skipped.append(territory_id) followed by continue
skip_territory(territory_id) == Append(skipped, territory_id)

\* the for loop of process_rule has another territory of src_prices to go to
more_territories == ti < Len(src_prices)

\* one request of fetch_all inside get_price_points_for_territory; when the fetch
\* returns, the loop body of process_rule matches the territory or skips it
fetch_price_points ==
    /\ pc = "pricePoints"
    /\ next_url # NoUrl
    /\ \E status \in Statuses :
          LET territory_id == src_prices[ti][1]
              src_price == src_prices[ti][2]
              pages == Paginate(RemotePricePoints(rule.targetIapId, territory_id))
              body == PageBody(pages, next_url, FALSE)
              pass == fetch_iteration(body)
              data == pass.items
              points == sorted_by_price(price_points_of(data))
              target_price == target_price_of(src_price, rule.discountPercent)
          IN /\ reqs' = Append(reqs, Request("GET", "pricePoints", rule.targetIapId,
                                             territory_id, next_url, params, status, NoBody))
             /\ IF status # 200
                THEN /\ Raise("HTTPError")
                     /\ UNCHANGED <<ti, price_point_map, skipped, next_url, params, items>>
                ELSE IF pass.next_url # NoUrl
                THEN /\ items' = data
                     /\ next_url' = pass.next_url
                     /\ params' = pass.params
                     /\ UNCHANGED <<pc, idx, errors, ti, price_point_map, skipped>>
                ELSE /\ IF points = <<>>
                        THEN /\ skipped' = skip_territory(territory_id)
                             /\ UNCHANGED price_point_map
                        ELSE /\ price_point_map' =
                                   dict_set(price_point_map, territory_id,
                                            best_price_point(points, target_price).id)
                             /\ UNCHANGED skipped
                     /\ IF more_territories
                        THEN /\ ti' = ti + 1
                             /\ next_url' = 1
                             /\ params' = TRUE
                             /\ items' = <<>>
                             /\ UNCHANGED pc
                        ELSE /\ pc' = "apply_prices_bulk"
                             /\ next_url' = NoUrl
                             /\ items' = data
                             /\ UNCHANGED <<ti, params>>
                     /\ UNCHANGED <<idx, errors>>
    /\ UNCHANGED <<batch_vars, remote, exit_status, writes, applied, attempted,
                   src_schedule, base_territory, prices, src_prices, all_included>>

\* the "updated for n territories" line of process_rule
Report == [rule |-> idx, territories |-> Len(price_point_map), dry_run |-> dry_run]

\* apply_prices_bulk called with dry_run = dry, and the end of process_rule
apply_prices_bulk_with(dry) ==
    /\ pc = "apply_prices_bulk"
    /\ IF dry
       THEN /\ applied' = Append(applied, Report)
            /\ Return
            /\ UNCHANGED <<reqs, remote, writes>>
       ELSE \E status \in Statuses :
              LET body == bulk_body(rule.targetIapId, base_territory, price_point_map)
              IN /\ reqs' = Append(reqs, Request("POST", "inAppPurchasePriceSchedules",
                                                 rule.targetIapId, None, 1, FALSE,
                                                 status, body))
                 /\ IF status = 200
                    THEN /\ remote' = remote_after_post(remote, body)
                         /\ writes' = Append(writes,
                                [rule |-> idx, body |-> body,
                                 clean |-> \A i \in DOMAIN reqs : reqs[i].status = 200])
                         /\ applied' = Append(applied, Report)
                         /\ Return
                    ELSE /\ Raise("HTTPError")
                         /\ UNCHANGED <<remote, writes, applied>>
    /\ UNCHANGED <<batch_vars, exit_status, attempted, locals, fetch_vars>>

\* a writer that does not look at dry_run
apply_prices_bulk_always_posts == apply_prices_bulk_with(FALSE)

apply_prices_bulk == apply_prices_bulk_with(dry_run)

\* an end of main that always reports success
Finish_exit_zero ==
    /\ pc = "main"
    /\ idx > Len(rules)
    /\ exit_status' = 0
    /\ pc' = "done"
    /\ UNCHANGED <<batch_vars, remote, idx, errors, locals, fetch_vars, reqs, writes,
                   attempted, applied>>

\* the end of main: sys.exit(1) when errors were recorded, else a normal return
Finish ==
    /\ pc = "main"
    /\ idx > Len(rules)
    /\ exit_status' = IF errors # <<>> THEN 1 ELSE 0
    /\ pc' = "done"
    /\ UNCHANGED <<batch_vars, remote, idx, errors, locals, fetch_vars, reqs, writes,
                   attempted, applied>>

Next ==
    \/ StartRule
    \/ get_price_schedule
    \/ get_base_territory
    \/ fetch_automatic_prices
    \/ fetch_manual_prices
    \/ fetch_price_points
    \/ apply_prices_bulk
    \/ Finish

Spec == Init /\ [][Next]_vars


(***************************************************************************)
(* Properties of the batch run (specification Spec).                       *)
(***************************************************************************)
LastAttempted == attempted[Len(attempted)]

\* the rule last started has left process_rule
RuleEnded == attempted # <<>> /\ pc \in {"main", "done"}

ErrRules == {errors[k].rule : k \in DOMAIN errors}
AppliedRules == {applied[k].rule : k \in DOMAIN applied}
WriteRules == {writes[k].rule : k \in DOMAIN writes}

RECURSIVE Replay(_, _)
\* the remote system after it accepted the requests of w, in order, starting from rem
Replay(rem, w) ==
    IF w = <<>> THEN rem ELSE Replay(remote_after_post(rem, Head(w).body), Tail(w))

\* C1: batch isolation.  The rules are attempted one at a time, each exactly once
\* and in list order; a rule that raised is recorded in errors with its
\* identifiers and the loop goes on to the next rule, so that at the end every
\* rule of the list was attempted; every rule ended either in errors or in a
\* success report, never both; and outside dry-run every rule that succeeded has
\* its write accepted by the remote system, whose state is the replay of exactly
\* those writes.
BatchIsolation ==
    /\ attempted = [i \in 1..Len(attempted) |-> i]
    /\ Len(attempted) = (IF pc \in {"main", "done"} THEN idx - 1 ELSE idx)
    /\ pc = "done" => Len(attempted) = Len(rules)
    /\ \A i \in 1..(idx - 1) :
          Cardinality({k \in DOMAIN errors : errors[k].rule = i})
            + Cardinality({k \in DOMAIN applied : applied[k].rule = i}) = 1
    /\ ErrRules \cup AppliedRules \subseteq 1..(idx - 1)
    /\ \A k \in DOMAIN errors :
          /\ errors[k].sourceIapId = rules[errors[k].rule].sourceIapId
          /\ errors[k].targetIapId = rules[errors[k].rule].targetIapId
    /\ ~dry_run => /\ [k \in DOMAIN writes |-> writes[k].rule]
                        = [k \in DOMAIN applied |-> applied[k].rule]
                   /\ remote = Replay(InitialRemote, writes)

\* C1 witness: a batch of two rules has ended; rule 1 raised a LookupError and
\* rule 2 was still processed and its write accepted.
BatchIsolationWitness ==
    /\ pc = "done"
    /\ Len(rules) = 2
    /\ Len(errors) = 1
    /\ errors[1].rule = 1
    /\ errors[1].exc = "LookupError"
    /\ Len(writes) = 1
    /\ writes[1].rule = 2

\* C2: exit status.  The process has an exit status only once the loop is over
\* and every rule was attempted; it is 0 exactly when no rule failed and non-zero
\* exactly when one did; the number of failures reported is the number of rules
\* that did not end in a success report.
ExitStatus ==
    /\ (exit_status # -1) <=> (pc = "done")
    /\ pc = "done" =>
          /\ Len(attempted) = Len(rules)
          /\ exit_status \in {0, 1}
          /\ (exit_status = 0) <=> (errors = <<>>)
          /\ (exit_status # 0) <=> (Len(errors) >= 1)
          /\ Len(errors) = Cardinality({i \in 1..Len(rules) : i \notin AppliedRules})

\* C2 witness: the run ended non-zero with one failed and one applied rule.
ExitStatusWitness ==
    /\ pc = "done"
    /\ exit_status = 1
    /\ Len(errors) = 1
    /\ Len(applied) = 1

\* C3: validation precedes I/O.  A rule whose discountPercent is not strictly
\* between 0 and 100 ends with a ValueError and an empty request log: no read and
\* no write of it reaches the remote system; no accepted write belongs to such a
\* rule.
ValidationPrecedesIO ==
    /\ (attempted # <<>> /\ ~(0 < rules[LastAttempted].discountPercent
                              /\ rules[LastAttempted].discountPercent < 100)) =>
          /\ reqs = <<>>
          /\ pc \in {"main", "done"}
          /\ \E k \in DOMAIN errors :
                errors[k].rule = LastAttempted /\ errors[k].exc = "ValueError"
          /\ LastAttempted \notin WriteRules
    /\ \A k \in DOMAIN writes :
          0 < rules[writes[k].rule].discountPercent
            /\ rules[writes[k].rule].discountPercent < 100

\* C3 witness: a rule with discount 0 and a rule with discount 100 both failed
\* validation and nothing was requested.
ValidationPrecedesIOWitness ==
    /\ pc = "done"
    /\ Len(rules) = 2
    /\ rules[1].discountPercent = 0
    /\ rules[2].discountPercent = 100
    /\ Len(errors) = 2
    /\ errors[1].exc = "ValueError"
    /\ errors[2].exc = "ValueError"
    /\ reqs = <<>>

\* C4: dry-run safety.  With dry_run on no POST is ever sent, the remote system
\* stays as it was before the run, and a rule that got through its reads is
\* reported as applied with the number of territories it would have written:
\* those of the source price map whose target ladder is not empty.
DryRunSafety ==
    dry_run =>
       /\ remote = InitialRemote
       /\ writes = <<>>
       /\ \A i \in DOMAIN reqs : reqs[i].method = "GET"
       /\ (RuleEnded /\ LastAttempted \notin ErrRules) =>
             /\ applied # <<>>
             /\ applied[Len(applied)].rule = LastAttempted
             /\ applied[Len(applied)].dry_run
             /\ applied[Len(applied)].territories =
                   Cardinality({t \in dict_keys(src_prices) :
                       RemotePricePoints(rules[LastAttempted].targetIapId, t) # <<>>})

\* C4 witness: a dry run ended in which a rule was reported as applied for one
\* territory (the other one was skipped).
DryRunSafetyWitness ==
    /\ dry_run
    /\ pc = "done"
    /\ applied # <<>>
    /\ applied[1].territories = 1
    /\ skipped # <<>>

\* C5: a failed request ends its rule.  Every request of the rule last started
\* that was answered with a non-success status, other than the not-found answer to
\* an automaticPrices page (which get_all_prices is documented to read as an empty
\* layer), is the last request of that rule: the rule is recorded in errors, no
\* request follows the failed one and no write of the rule is accepted.
FailedRequestAbortsRule ==
    \A i \in DOMAIN reqs :
       (reqs[i].status # 200
          /\ ~(reqs[i].resource = "automaticPrices" /\ reqs[i].status = 404)) =>
             /\ i = Len(reqs)
             /\ pc \in {"main", "done"}
             /\ LastAttempted \in ErrRules
             /\ LastAttempted \notin WriteRules

\* the last page of the target's ladder in a territory
LastLadderPage(target, t) == Len(Paginate(RemotePricePoints(target, t)))

\* C6: single write after all reads.  In the request log of a rule a POST is the
\* last request and the only POST; before it the last ladder page of every
\* territory of the source price map was answered; its document is the one built
\* from the whole assignment (every territory of the source price map is in the
\* assignment or in skipped) and names the source item's base territory.
SingleWriteAfterReads ==
    \A i \in DOMAIN reqs :
       reqs[i].method = "POST" =>
          /\ i = Len(reqs)
          /\ \A j \in DOMAIN reqs : reqs[j].method = "POST" => j = i
          /\ pc \in {"main", "done"}
          /\ \A t \in dict_keys(src_prices) :
                \E j \in 1..(i - 1) :
                   /\ reqs[j].resource = "pricePoints"
                   /\ reqs[j].item = rules[LastAttempted].targetIapId
                   /\ reqs[j].territory = t
                   /\ reqs[j].status = 200
                   /\ reqs[j].page = LastLadderPage(rules[LastAttempted].targetIapId, t)
          /\ dict_keys(price_point_map) \cup {skipped[k] : k \in DOMAIN skipped}
                = dict_keys(src_prices)
          /\ reqs[i].item = rules[LastAttempted].targetIapId
          /\ reqs[i].body.data.inAppPurchase = rules[LastAttempted].targetIapId
          /\ reqs[i].body.data.baseTerritory = base_territory
          /\ base_territory = remote.baseTerritory[rules[LastAttempted].sourceIapId]
          /\ Len(reqs[i].body.included) = Len(price_point_map)
          /\ \A k \in DOMAIN price_point_map :
                /\ reqs[i].body.data.manualPrices[k] = LocalRef(price_point_map[k][1])
                /\ reqs[i].body.included[k].id = LocalRef(price_point_map[k][1])
                /\ reqs[i].body.included[k].inAppPurchasePricePoint
                      = price_point_map[k][2]

\* C6 witness: a rule over a source price map of two territories sent its write
\* after both ladders, and the write carried an assignment for both.
SingleWriteAfterReadsWitness ==
    /\ reqs # <<>>
    /\ reqs[Len(reqs)].method = "POST"
    /\ reqs[Len(reqs)].status = 200
    /\ Len(src_prices) = 2
    /\ Len(reqs[Len(reqs)].body.included) = 2

\* C7: per-rule idempotence.  When a rule is processed twice in a row, every read
\* of both runs answered with success and both writes accepted, the second run
\* submits the document the first run submitted and leaves the remote system as
\* the first run left it.
PerRuleIdempotence ==
    \A k \in DOMAIN writes :
       (/\ k + 1 \in DOMAIN writes
        /\ writes[k + 1].rule = writes[k].rule + 1
        /\ rules[writes[k + 1].rule] = rules[writes[k].rule]
        /\ writes[k].clean
        /\ writes[k + 1].clean) =>
           /\ writes[k + 1].body = writes[k].body
           /\ Replay(InitialRemote, SubSeq(writes, 1, k + 1))
                 = Replay(InitialRemote, SubSeq(writes, 1, k))


(***************************************************************************)
(* One function run by itself.  The batch is idle: the variables of main   *)
(* and process_rule keep the values below.                                 *)
(***************************************************************************)
Idle ==
    /\ rules = <<>>
    /\ dry_run = TRUE
    /\ remote = InitialRemote
    /\ idx = 1
    /\ errors = <<>>
    /\ exit_status = -1
    /\ src_schedule = NoSchedule
    /\ base_territory = None
    /\ prices = <<>>
    /\ src_prices = <<>>
    /\ ti = 0
    /\ price_point_map = <<>>
    /\ skipped = <<>>
    /\ writes = <<>>
    /\ attempted = <<>>
    /\ applied = <<>>

idle_vars == <<rules, dry_run, remote, idx, errors, exit_status, locals, writes,
               attempted, applied>>

(***************************************************************************)
(* get_price_points_for_territory's sort and best_price_point, on every    *)
(* list of price points of up to MaxLadder points priced 1..MaxPrice and   *)
(* every target price 0..MaxPrice + 1.                                     *)
(***************************************************************************)
\* the price points as fetched: point i has id i
FetchedPoints ==
    UNION {{[i \in 1..n |-> [id |-> i, customerPrice |-> c[i]]] :
               c \in [1..n -> 1..MaxPrice]} : n \in 1..MaxLadder}

InitMatch ==
    /\ Idle
    /\ pc = "get_price_points_for_territory"
    /\ next_url = NoUrl
    /\ params = FALSE
    /\ items \in FetchedPoints
    /\ all_included = <<>>
    /\ reqs = <<>>
    /\ fn \in [op : {"match"}, target : 0..(MaxPrice + 1), ladder : {<<>>},
               result : {<<>>}]

\* the return statement of get_price_points_for_territory
sort_points ==
    /\ pc = "get_price_points_for_territory"
    /\ fn' = [fn EXCEPT !.ladder = sorted_by_price(price_points_of(items))]
    /\ pc' = "best_price_point"
    /\ UNCHANGED <<idle_vars, fetch_vars, reqs>>

\* chosen = best_price_point(points, target_price)
match_point ==
    /\ pc = "best_price_point"
    /\ fn' = [fn EXCEPT !.result = <<best_price_point(fn.ladder, fn.target)>>]
    /\ pc' = "matched"
    /\ UNCHANGED <<idle_vars, fetch_vars, reqs>>

NextMatch == sort_points \/ match_point

SpecMatch == InitMatch /\ [][NextMatch]_vars

Distance(point, target) == Abs(point.price - target)

\* C8: tier matcher.  The ladder get_price_points_for_territory returns holds the
\* fetched points in ascending order of price; best_price_point returns an
\* element of it that is at least as close to the target as every other element,
\* and of the elements as close as it, it is the earliest in the ladder and none
\* is lower priced.
TierMatcher ==
    /\ pc \in {"best_price_point", "matched"} =>
          /\ Len(fn.ladder) = Len(items)
          /\ \A i \in DOMAIN items :
                \E j \in DOMAIN fn.ladder :
                   fn.ladder[j] = [id |-> items[i].id, price |-> items[i].customerPrice]
          /\ \A i, j \in DOMAIN fn.ladder :
                i < j => fn.ladder[i].price <= fn.ladder[j].price
    /\ pc = "matched" =>
          \E i \in DOMAIN fn.ladder :
             /\ fn.result[1] = fn.ladder[i]
             /\ \A j \in DOMAIN fn.ladder :
                   /\ Distance(fn.ladder[i], fn.target) <= Distance(fn.ladder[j], fn.target)
                   /\ Distance(fn.ladder[j], fn.target) = Distance(fn.ladder[i], fn.target)
                         => (i <= j /\ fn.ladder[i].price <= fn.ladder[j].price)

\* C8 witness: a match in which a lower and a higher priced point are equally far
\* from the target, and the lower one was returned.
TierMatcherWitness ==
    /\ pc = "matched"
    /\ \E j \in DOMAIN fn.ladder :
          /\ fn.ladder[j].price > fn.result[1].price
          /\ Distance(fn.ladder[j], fn.target) = Distance(fn.result[1], fn.target)

(***************************************************************************)
(* get_all_prices on the data of the two relationships, every request      *)
(* answered with success: up to MaxEntries price resources in each layer.  *)
(***************************************************************************)
OverlayPrices == {10, 20}

\* a price resource of the schedule, with or without its territory
OverlayResources ==
    {[territory |-> t, inAppPurchasePricePoint |-> PricePointId("A", t, p)] :
        t \in Territories \cup {None}, p \in OverlayPrices}

OverlayData == UNION {[1..n -> OverlayResources] : n \in 0..MaxEntries}

\* the resources side-loaded with data; a response that is not complete lacks the
\* price points priced 20 (the automatic layer is read both ways, the manual
\* layer from complete responses)
included_of(data, complete) ==
    LET kept == SelectSeq(data, LAMBDA r : complete \/ r.inAppPurchasePricePoint[3] # 20)
    IN include_all(<<>>, [i \in DOMAIN kept |-> IncludedFor(kept[i])])

InitOverlay ==
    /\ Idle
    /\ pc = "get_all_prices"
    /\ next_url = NoUrl
    /\ params = FALSE
    /\ items = <<>>
    /\ all_included = <<>>
    /\ reqs = <<>>
    /\ fn \in [op : {"overlay"}, automaticData : OverlayData, manualData : OverlayData,
               complete : BOOLEAN, automatic : {<<>>}, manual : {<<>>},
               result : {<<>>}, raised : {FALSE}]

\* prices = _prices_from_relationship(hdrs, schedule_id, "automaticPrices")
read_automatic_layer ==
    /\ pc = "get_all_prices"
    /\ fn' = [fn EXCEPT !.automatic =
                 prices_from_data(fn.automaticData,
                                  included_of(fn.automaticData, fn.complete), <<>>)]
    /\ pc' = "update"
    /\ UNCHANGED <<idle_vars, fetch_vars, reqs>>

\* prices.update(_prices_from_relationship(hdrs, schedule_id, "manualPrices")) and
\* the check for an empty map
read_manual_layer_and_merge ==
    /\ pc = "update"
    /\ LET manual == prices_from_data(fn.manualData,
                                      included_of(fn.manualData, TRUE), <<>>)
           merged == merge_layers(fn.automatic, manual)
       IN fn' = [fn EXCEPT !.manual = manual, !.result = merged,
                           !.raised = no_prices(merged)]
    /\ pc' = "prices_returned"
    /\ UNCHANGED <<idle_vars, fetch_vars, reqs>>

NextOverlay == read_automatic_layer \/ read_manual_layer_and_merge

SpecOverlay == InitOverlay /\ [][NextOverlay]_vars

\* C9: overlay correctness.  The map get_all_prices returns has as keys exactly
\* the territories of the automatic layer and of the manual layer, each once, and
\* gives a territory its manual price when the manual layer has one and its
\* automatic price otherwise.
OverlayCorrect ==
    (pc = "prices_returned" /\ ~fn.raised) =>
       /\ dict_keys(fn.result) = dict_keys(fn.automatic) \cup dict_keys(fn.manual)
       /\ Cardinality(dict_keys(fn.result)) = Len(fn.result)
       /\ \A t \in dict_keys(fn.result) :
             dict_get(fn.result, t) =
                IF t \in dict_keys(fn.manual)
                THEN dict_get(fn.manual, t)
                ELSE dict_get(fn.automatic, t)

\* C9 witness: a territory priced in both layers at different prices came out at
\* its manual price, beside a territory priced in the automatic layer only.
OverlayCorrectWitness ==
    /\ pc = "prices_returned"
    /\ ~fn.raised
    /\ \E t \in dict_keys(fn.automatic) \cap dict_keys(fn.manual) :
          /\ dict_get(fn.automatic, t) # dict_get(fn.manual, t)
          /\ dict_get(fn.result, t) = dict_get(fn.manual, t)
    /\ \E t \in dict_keys(fn.automatic) : t \notin dict_keys(fn.manual)

(***************************************************************************)
(* fetch_all and fetch_all_with_includes on every chain of up to MaxPages  *)
(* pages of up to MaxPageItems items each; the items are pairwise distinct.*)
(***************************************************************************)
PageSizes == UNION {[1..k -> 0..MaxPageItems] : k \in 1..MaxPages}

\* the pages of a collection whose page p holds sizes[p] items
ChainOf(sizes) ==
    [p \in DOMAIN sizes |->
        [i \in 1..sizes[p] |-> PriceResource("A", "USA", p * (MaxPageItems + 1) + i)]]

InitFetch ==
    /\ Idle
    /\ pc = "fetch_all"
    /\ StartFetchState
    /\ reqs = <<>>
    /\ fn \in {[op |-> "fetch", pages |-> ChainOf(sizes), with_includes |-> w,
                returned |-> <<>>] : sizes \in PageSizes, w \in BOOLEAN}

\* one pass of the while loop of fetch_all (of fetch_all_with_includes when
\* fn.with_includes): the request, raise_for_status and the loop body
fetch_page ==
    /\ pc = "fetch_all"
    /\ next_url # NoUrl
    /\ \E status \in Statuses :
          LET body == PageBody(fn.pages, next_url, fn.with_includes)
              pass == fetch_iteration(body)
          IN /\ reqs' = Append(reqs, Request("GET", "collection", None, None,
                                             next_url, params, status, NoBody))
             /\ IF raise_for_status(status)
                THEN /\ pc' = "raised"
                     /\ UNCHANGED <<fetch_vars, fn>>
                ELSE /\ items' = pass.items
                     /\ all_included' = pass.all_included
                     /\ next_url' = pass.next_url
                     /\ params' = pass.params
                     /\ IF pass.next_url # NoUrl
                        THEN UNCHANGED <<pc, fn>>
                        ELSE /\ pc' = "returned"
                             /\ fn' = [fn EXCEPT !.returned =
                                          <<[data |-> pass.items,
                                             included |-> pass.all_included]>>]
    /\ UNCHANGED idle_vars

NextFetch == fetch_page

SpecFetch == InitFetch /\ [][NextFetch]_vars

RECURSIVE Flatten(_)
\* the items of the pages, page after page
Flatten(pages) == IF pages = <<>> THEN <<>> ELSE Head(pages) \o Flatten(Tail(pages))

\* C10: pagination result and request count.  When a fetch over a chain of k
\* pages returns, it has issued exactly k requests, request i for page i; it
\* returns the items of the pages in their order, none lost and none twice; the
\* first request carried the query parameters and no later request did.
PaginationResult ==
    pc = "returned" =>
       /\ Len(reqs) = Len(fn.pages)
       /\ \A i \in DOMAIN reqs :
             /\ reqs[i].page = i
             /\ reqs[i].status = 200
             /\ reqs[i].params = (i = 1)
       /\ fn.returned[1].data = Flatten(fn.pages)
       /\ \A i, j \in DOMAIN fn.returned[1].data :
             fn.returned[1].data[i] = fn.returned[1].data[j] => i = j

\* C10 witness: a fetch over three pages of 2, 2 and 1 items returned 5 items
\* after 3 requests.
PaginationResultWitness ==
    /\ pc = "returned"
    /\ Len(fn.pages) = 3
    /\ Len(fn.pages[1]) = 2
    /\ Len(fn.pages[2]) = 2
    /\ Len(fn.pages[3]) = 1
    /\ Len(fn.returned[1].data) = 5
    /\ Len(reqs) = 3


\* the fetch loop runs to its end: a request in flight is answered and the code
\* after it runs (requests.get has a timeout, nothing else waits)
SpecFetchFair == SpecFetch /\ WF_vars(NextFetch)

\* the fetch is over: it returned or it raised
FetchOver == pc \in {"returned", "raised"}

\* what the fetcher has done is a walk along the next links from the first page:
\* request i asked for page i, every answered request but the last one carried a
\* next link, and the fetch goes on exactly while a next link is at hand
FollowsNextLinks ==
    /\ \A i \in DOMAIN reqs : reqs[i].page = i /\ i <= Len(fn.pages)
    /\ \A i \in 1..(Len(reqs) - 1) :
          reqs[i].status = 200 /\ PageBody(fn.pages, i, fn.with_includes).next # NoUrl
    /\ pc = "returned" =>
          /\ reqs # <<>>
          /\ reqs[Len(reqs)].status = 200
          /\ PageBody(fn.pages, Len(reqs), fn.with_includes).next = NoUrl
    /\ pc = "fetch_all" =>
          /\ next_url # NoUrl
          /\ next_url = Len(reqs) + 1
          /\ ENABLED fetch_page
    /\ FetchOver => ~ENABLED fetch_page

\* C11: pagination termination.  The fetcher follows the next links and returns at
\* the first response without one, never earlier and with no request after it;
\* over every finite chain of pages the fetch is eventually over (returned or
\* raised) and then stays over.
PaginationTerminates ==
    /\ []FollowsNextLinks
    /\ <>[]FetchOver

\* C11 witness: a fetch over a chain of three pages returned after the third.
PaginationTerminatesWitness ==
    /\ pc = "returned"
    /\ Len(fn.pages) = 3
    /\ Len(reqs) = 3
    /\ next_url = NoUrl


\* C12: pagination failure is all-or-nothing.  A request answered with a
\* non-success status is the last request of the fetch: the fetch has raised, no
\* page is requested after it or a second time, and nothing is returned to the
\* caller, whatever the earlier pages held.
PaginationFailure ==
    /\ \A i \in DOMAIN reqs :
          reqs[i].status # 200 =>
             /\ i = Len(reqs)
             /\ pc = "raised"
             /\ fn.returned = <<>>
             /\ ~ENABLED fetch_page
    /\ pc = "raised" =>
          /\ reqs # <<>>
          /\ reqs[Len(reqs)].status # 200
          /\ \A i, j \in DOMAIN reqs : reqs[i].page = reqs[j].page => i = j

\* C12 witness: the third page of a chain failed after items of the first two were
\* collected; the fetch raised and returned nothing.
PaginationFailureWitness ==
    /\ pc = "raised"
    /\ Len(reqs) = 3
    /\ reqs[3].status = 500
    /\ Len(items) >= 2
    /\ fn.returned = <<>>


(***************************************************************************)
(* Properties of get_all_prices inside the batch run (specification Spec). *)
(***************************************************************************)
\* C13: not-found handling in get_all_prices.  A not-found answer to an
\* automaticPrices page is read as an automatic layer without entries and the read
\* goes on with the first page of manualPrices; every other failure of
\* get_all_prices (another non-success status on automaticPrices, any non-success
\* status on manualPrices) ends the rule with an error.
NotFoundHandling ==
    \A i \in DOMAIN reqs :
       /\ (reqs[i].resource = "automaticPrices" /\ reqs[i].status = 404) =>
             /\ i = Len(reqs) => (pc = "manualPrices" /\ prices = <<>>)
             /\ i < Len(reqs) =>
                   (reqs[i + 1].resource = "manualPrices" /\ reqs[i + 1].page = 1)
       /\ ((reqs[i].resource = "automaticPrices" /\ reqs[i].status \notin {200, 404})
             \/ (reqs[i].resource = "manualPrices" /\ reqs[i].status # 200)) =>
             /\ i = Len(reqs)
             /\ RuleEnded
             /\ LastAttempted \in ErrRules


\* the requests of the rule last started for pages of manualPrices
ManualRequests == {i \in DOMAIN reqs : reqs[i].resource = "manualPrices"}

\* both layers of the rule last started were read: the last manualPrices request
\* was answered with a page or with not-found, and get_all_prices has gone past it
LayersRead ==
    /\ ManualRequests # {}
    /\ pc # "manualPrices"
    /\ LET last == CHOOSE i \in ManualRequests : \A j \in ManualRequests : j <= i
       IN reqs[last].status \in {200, 404}

\* C14: empty source schedule.  When the overlay of the two layers has no entry,
\* get_all_prices raises: the rule ends with a LookupError, its last request is
\* the last one of manualPrices (no ladder request, no write) and it is not
\* reported as applied.  process_rule never goes on with an empty price map.
EmptySourceSchedule ==
    /\ (LayersRead /\ prices = <<>>) =>
          /\ RuleEnded
          /\ \E k \in DOMAIN errors :
                errors[k].rule = LastAttempted /\ errors[k].exc = "LookupError"
          /\ reqs[Len(reqs)].resource = "manualPrices"
          /\ src_prices = <<>>
          /\ LastAttempted \notin WriteRules \cup AppliedRules
    /\ (LayersRead /\ prices # <<>>) => src_prices = prices
    /\ pc \in {"pricePoints", "apply_prices_bulk"} => src_prices # <<>>
    /\ \A i \in DOMAIN reqs :
          reqs[i].resource \in {"pricePoints", "inAppPurchasePriceSchedules"}
             => src_prices # <<>>

\* C14 witness: a rule read an automatic layer without entries (not-found) and an
\* empty manual layer from a successful answer, and ended with a LookupError.
EmptySourceScheduleWitness ==
    /\ RuleEnded
    /\ LayersRead
    /\ prices = <<>>
    /\ reqs[Len(reqs)].status = 200
    /\ errors # <<>>
    /\ errors[Len(errors)].exc = "LookupError"


\* the for loop of process_rule of the rule last started has run to its end
LoopOver ==
    \/ pc = "apply_prices_bulk"
    \/ /\ RuleEnded
       /\ \/ LastAttempted \in AppliedRules
          \/ \E i \in DOMAIN reqs : reqs[i].method = "POST"

\* the territories of src_prices whose loop iteration is over, in order
Processed ==
    LET n == IF LoopOver THEN Len(src_prices) ELSE IF ti = 0 THEN 0 ELSE ti - 1
    IN {src_prices[k][1] : k \in 1..n}

\* the territories of the sequence skipped
Skipped == {skipped[k] : k \in DOMAIN skipped}

\* C15: an empty ladder is a skip.  A territory of the source schedule whose
\* ladder was fetched and is empty goes to skipped, never to the assignment, and
\* the loop goes on without failing the rule; the assigned and the skipped
\* territories are disjoint, together they are the territories processed so far
\* (all territories of the source schedule when the loop is over), and a
\* territory is assigned exactly when the target has a ladder there.
EmptyLadderIsSkip ==
    /\ dict_keys(price_point_map) \cap Skipped = {}
    /\ dict_keys(price_point_map) \cup Skipped = Processed
    /\ Len(skipped) = Cardinality(Skipped)
    /\ attempted # <<>> =>
          \A t \in Processed :
             t \in dict_keys(price_point_map)
                <=> RemotePricePoints(rules[LastAttempted].targetIapId, t) # <<>>
    /\ pc = "apply_prices_bulk" =>
          /\ LastAttempted \notin ErrRules
          /\ Processed = dict_keys(src_prices)

\* C15 witness: the loop of a rule is over with one territory skipped for its
\* empty ladder and another one assigned.
EmptyLadderIsSkipWitness ==
    /\ pc = "apply_prices_bulk"
    /\ skipped # <<>>
    /\ price_point_map # <<>>
    /\ RemotePricePoints(rule.targetIapId, skipped[1]) = <<>>


(***************************************************************************)
(* The document apply_prices_bulk builds, on every assignment of up to      *)
(* three territories to price points, in every insertion order.            *)
(***************************************************************************)
BulkTerritories == {"USA", "GBR", "JPN"}

BulkPricePoints == {"pp1", "pp2"}

\* the dicts {territory_id: price_point_id}: no territory is a key twice
Assignments ==
    UNION {{m \in [1..n -> BulkTerritories \X BulkPricePoints] :
               \A i, j \in 1..n : i # j => m[i][1] # m[j][1]} :
           n \in 0..Cardinality(BulkTerritories)}

InitBulk ==
    /\ Idle
    /\ pc = "apply_prices_bulk"
    /\ next_url = NoUrl
    /\ params = FALSE
    /\ items = <<>>
    /\ all_included = <<>>
    /\ reqs = <<>>
    /\ fn \in [op : {"bulk"}, iap_id : {"A"}, base_territory : BulkTerritories,
               price_point_map : Assignments, body : {NoBody}]

\* the loop over price_point_map.items() and the body literal of apply_prices_bulk
build_body ==
    /\ pc = "apply_prices_bulk"
    /\ fn' = [fn EXCEPT !.body = bulk_body(fn.iap_id, fn.base_territory,
                                           fn.price_point_map)]
    /\ pc' = "requests.post"
    /\ UNCHANGED <<idle_vars, fetch_vars, reqs>>

NextBulk == build_body

SpecBulk == InitBulk /\ [][NextBulk]_vars

\* C16: bulk document referential integrity.  For an assignment of N territories
\* the document has N included resources and N manual-price references, the
\* local reference ids are pairwise distinct, every included id is exactly one
\* of the references, and the included resource with a territory's reference id
\* links the price point assigned to that territory.
BulkIntegrity ==
    pc = "requests.post" =>
       LET m == fn.price_point_map
           included == fn.body.included
           refs == fn.body.data.manualPrices
           N == Len(m)
       IN /\ Len(included) = N
          /\ Len(refs) = N
          /\ \A i, j \in DOMAIN included : i # j => included[i].id # included[j].id
          /\ \A i, j \in DOMAIN refs : i # j => refs[i] # refs[j]
          /\ \A i \in DOMAIN included :
                Cardinality({j \in DOMAIN refs : refs[j] = included[i].id}) = 1
          /\ \A t \in dict_keys(m) :
                LET of_t == {i \in DOMAIN included : included[i].id = LocalRef(t)}
                IN /\ Cardinality(of_t) = 1
                   /\ \A i \in of_t :
                         included[i].inAppPurchasePricePoint = dict_get(m, t)

\* C16 witness: the document of an assignment of three territories, two of them
\* with the same price point, was built.
BulkIntegrityWitness ==
    /\ pc = "requests.post"
    /\ Len(fn.price_point_map) = 3
    /\ Len(fn.body.included) = 3
    /\ fn.price_point_map[1][2] = fn.price_point_map[2][2]


\* every read of the rule last started was answered 200
AllReadsSucceeded == \A i \in DOMAIN reqs : reqs[i].method = "GET" => reqs[i].status = 200

\* the hundredths nearest to src_price * (1 - discount / 100): one value, or the
\* two neighbours of an exact tie
NearestHundredths(src_price, discount) ==
    LET exact == src_price * (100 - discount)
        q == exact \div 100
    IN {T \in {q, q + 1} : Abs(100 * T - exact) <= 50}

\* the assignment {territory: price point id} a submitted document carries
SubmittedAssignment(body) ==
    [k \in DOMAIN body.included |->
        <<body.included[k].id[2], body.included[k].inAppPurchasePricePoint>>]

\* m assigns exactly the territories of src_prices in which the target has a
\* ladder, each to a point of that ladder nearest to its own discounted price
AssignmentRight(m, r) ==
    /\ Len(m) = Cardinality(dict_keys(m))
    /\ dict_keys(m) = {t \in dict_keys(src_prices) :
                          RemotePricePoints(r.targetIapId, t) # <<>>}
    /\ \A t \in dict_keys(m) :
          LET ladder == RemotePricePoints(r.targetIapId, t)
          IN \E T \in NearestHundredths(dict_get(src_prices, t), r.discountPercent) :
             \E k \in DOMAIN ladder :
                /\ ladder[k].id = dict_get(m, t)
                /\ \A j \in DOMAIN ladder :
                      Abs(ladder[k].customerPrice - T) <= Abs(ladder[j].customerPrice - T)

\* C17: submitted assignment content.  For a rule whose reads all succeeded, the
\* assignment handed to apply_prices_bulk and the one in the submitted document
\* map every territory of the source price map whose target ladder is not empty
\* to the ladder point nearest to the territory's own discounted price, rounded
\* to hundredths, and have no other entry; the count reported is the number of
\* entries.
SubmittedContent ==
    (attempted # <<>> /\ AllReadsSucceeded) =>
       LET r == rules[LastAttempted]
       IN /\ pc = "apply_prices_bulk" => AssignmentRight(price_point_map, r)
          /\ \A i \in DOMAIN reqs :
                reqs[i].method = "POST" =>
                   /\ AssignmentRight(SubmittedAssignment(reqs[i].body), r)
                   /\ reqs[i].body.data.inAppPurchase = r.targetIapId
          /\ \A k \in DOMAIN applied :
                (RuleEnded /\ applied[k].rule = LastAttempted) =>
                   /\ AssignmentRight(price_point_map, r)
                   /\ applied[k].territories = Len(price_point_map)
                   /\ ~dry_run => applied[k].territories
                                     = Len(reqs[Len(reqs)].body.included)

\* C17 witness: a rule whose reads all succeeded had its document of one entry
\* accepted, with another territory skipped, and was reported with count 1.
SubmittedContentWitness ==
    /\ RuleEnded
    /\ AllReadsSucceeded
    /\ reqs # <<>>
    /\ reqs[Len(reqs)].method = "POST"
    /\ reqs[Len(reqs)].status = 200
    /\ Len(reqs[Len(reqs)].body.included) = 1
    /\ skipped # <<>>
    /\ applied # <<>>
    /\ applied[Len(applied)].rule = LastAttempted
    /\ applied[Len(applied)].territories = 1


(***************************************************************************)
(* The target price computed in the loop of process_rule, on every source  *)
(* price of 1..MaxSourcePrice hundredths and every whole discount 1..99.   *)
(***************************************************************************)
InitRound ==
    /\ Idle
    /\ pc = "src_price"
    /\ next_url = NoUrl
    /\ params = FALSE
    /\ items = <<>>
    /\ all_included = <<>>
    /\ reqs = <<>>
    /\ fn \in [op : {"round"}, src_price : 1..MaxSourcePrice,
               discount : {d \in 1..99 : valid_discount(d)}, target_price : {-1}]

\* target_price = round(src_price * (1 - discount / 100), 2)
round_target_price ==
    /\ pc = "src_price"
    /\ \E T \in float_round_outcomes(fn.src_price, fn.discount) :
          fn' = [fn EXCEPT !.target_price = T]
    /\ pc' = "target_price"
    /\ UNCHANGED <<idle_vars, fetch_vars, reqs>>

NextRound == round_target_price

SpecRound == InitRound /\ [][NextRound]_vars

\* C18: discount rounding.  For a source price of whole hundredths and a
\* discount strictly between 0 and 100, the target price is a whole number of
\* hundredths between 0 and the source price that is at most 0.005 (50
\* ten-thousandths) away from the exact src_price * (1 - discount / 100).
DiscountRounding ==
    pc = "target_price" =>
       LET exact == fn.src_price * (100 - fn.discount)
       IN /\ fn.target_price \in 0..fn.src_price
          /\ Abs(100 * fn.target_price - exact) <= 50

\* C18 witness: a target price was rounded up from an exact value that is not
\* a whole number of hundredths.
DiscountRoundingWitness ==
    /\ pc = "target_price"
    /\ (fn.src_price * (100 - fn.discount)) % 100 > 50
    /\ 100 * fn.target_price > fn.src_price * (100 - fn.discount)


\* the schedule-creation requests of the rule last started
PostRequests == {i \in DOMAIN reqs : reqs[i].method = "POST"}

\* C19: base territory in the submission.  In every write a rule submits, the
\* base territory named in the new schedule has a manual-price entry in the same
\* document: it is not a skipped territory and not a territory missing from the
\* source price map.  Stated for the rules whose reads were all answered 200 and
\* whose document has an entry.
BaseTerritoryAssigned ==
    \A i \in PostRequests :
       LET body == reqs[i].body
       IN (AllReadsSucceeded /\ body.included # <<>>) =>
             /\ body.data.baseTerritory \in dict_keys(SubmittedAssignment(body))
             /\ body.data.baseTerritory \notin Skipped
             /\ body.data.baseTerritory \in dict_keys(src_prices)

\* every request for manualPrices of the rule last started was answered 200
ManualLayerFound == \A i \in ManualRequests : reqs[i].status = 200

\* C20: no write of an empty assignment.  No write is submitted with an empty
\* assignment, and a rule whose territories were all skipped is not reported as
\* applied.  Stated for the rules whose manual layer was read from the remote.
NoEmptySubmission ==
    ManualLayerFound =>
       /\ \A i \in PostRequests : reqs[i].body.included # <<>>
       /\ \A k \in DOMAIN applied :
             (RuleEnded /\ applied[k].rule = LastAttempted) =>
                applied[k].territories >= 1

=============================================================================
